---------------------------- MODULE Spec2Model ----------------------------
(***************************************************************************)
(* The adaptive multi-server selection engine of the EMS video client:     *)
(* the two UCB selectors of ems-algorithms/ucb_algorithms.py (L_EMS and    *)
(* D_EMS) and the chunk handler of video-clients/proxy.py that drives      *)
(* them.                                                                   *)
(*                                                                         *)
(* Python floats are modelled as exact rationals <<num, den>> (den > 0,    *)
(* lowest terms).  The confidence bonus sqrt(c * ln(round) / n) is         *)
(* computed in thousandths: ln from a table of ln(t) * 1000 and the square *)
(* root as an integer square root.                                         *)
(***************************************************************************)
EXTENDS Integers, Sequences, FiniteSets, TLC

\* ------------------------------------------------------------------ bounds

\* The server universe, in the order block_assignment.json lists it.
ServerOrder == <<"s1", "s2", "s3">>
\* The values of D an L_EMS is constructed with in Spec.
DValues == {1, 2}
\* The <<D, H, V>> a D_EMS is constructed with in Spec: one with H above D and
\* one with H below it.
D_EMS_Params == {<<1, 2, 1>>, <<2, 1, 100>>}
\* Outcomes smoothed into the estimator, over all servers, in one run of Spec.
MaxUpdates == 3
\* Largest round number handed to select_servers in Spec.
MaxRound == 2
\* The backlog of D_EMS never grows beyond this in Spec.
MaxQ == 3
\* Chunk requests the proxy receives.
MaxCalls == 2

\* ------------------------------------------------------- program constants

DefaultD == 6
DefaultH == 9
DefaultV == 100

\* ------------------------------------------------------------- rationals

RECURSIVE GCD(_, _)
GCD(a, b) == IF b = 0 THEN a ELSE GCD(b, a % b)

Abs(a) == IF a < 0 THEN -a ELSE a

\* a / b in lowest terms, b > 0.
Rat(a, b) ==
    LET g == GCD(Abs(a), b) IN <<a \div g, b \div g>>

RInt(i) == <<i, 1>>
RAdd(x, y) == Rat(x[1] * y[2] + y[1] * x[2], x[2] * y[2])
RSub(x, y) == Rat(x[1] * y[2] - y[1] * x[2], x[2] * y[2])
RMul(x, y) == Rat(x[1] * y[1], x[2] * y[2])
\* x / i for an integer i > 0.
RDivInt(x, i) == Rat(x[1], x[2] * i)
RLess(x, y) == x[1] * y[2] < y[1] * x[2]
RLeq(x, y) == x[1] * y[2] <= y[1] * x[2]
RMin(x, y) == IF RLess(y, x) THEN y ELSE x

Half == <<1, 2>>
Zero == <<0, 1>>
One == <<1, 1>>

\* ln(t) * 1000, rounded, for t = 1 .. 12.
LnMilliTable ==
    <<0, 693, 1099, 1386, 1609, 1792, 1946, 2079, 2197, 2303, 2398, 2485>>

LnMilli(t) == LnMilliTable[t]

RECURSIVE ISqrtIn(_, _, _)
\* The largest r in lo .. hi with r * r <= x (lo * lo <= x assumed).
ISqrtIn(x, lo, hi) ==
    IF lo >= hi THEN lo
    ELSE LET mid == (lo + hi + 1) \div 2
         IN  IF mid * mid <= x THEN ISqrtIn(x, mid, hi)
             ELSE ISqrtIn(x, lo, mid - 1)

\* The search stops at 46340, the largest root whose square is a 32-bit integer.
ISqrt(x) == ISqrtIn(x, 0, IF x < 46340 THEN x ELSE 46340)

\* sqrt(c * ln(round) / cnt), as a rational in thousandths.
Bonus(c, round, cnt) ==
    Rat(ISqrt((c * LnMilli(round) * 1000) \div cnt), 1000)

\* ---------------------------------------------------------------- state

VARIABLES
    algorithm_type,    \* "L_EMS", "D_EMS", or "None" (proxy initialisation failed)
    servers,           \* self.servers: the registered server list
    D, H, V,           \* constructor parameters
    quality,           \* self.omega (L_EMS) / self.theta (D_EMS)
    n,                 \* self.n: selections count per server
    Q,                 \* self.Q: the virtual queue of D_EMS
    recorded,          \* history: per server, how many outcomes the callers of
                       \* update have reported for it, and their sum
    round_num,         \* proxy.py's global round counter
    ret,               \* the selector call in progress: its arguments and result
    pc,                \* per worker thread: position inside get_chunk
    selected_servers,  \* per thread: get_chunk's local selected_servers
    latency,           \* per thread: the latency measured for each server
    metrics,           \* per thread: download_blocks' metrics
    update_call,       \* per thread: the frame of algorithm.update, once called
    reg,               \* per thread: the value loaded by the running read-modify-write
    response,          \* per thread: status of the last response returned
    calls,             \* per thread: chunk requests completed
    data,              \* the bytes of one video chunk, as the encoder reads them
    enc_k, enc_m,      \* erasure_code_chunks' parameters k and m
    coded,             \* coded_chunks/<chunk>: the blocks and metadata.json
    pod_status,        \* how each Tomcat pod answers the decode proxy
    dpc,               \* the decode proxy's position inside decode_chunk
    pod_num,           \* decode_chunk's loop variable
    blocks,            \* decode_chunk's list of (pod_num, content)
    indices,           \* the block numbers handed to decoder.decode
    decoded,           \* what decode_chunk returns
    reply              \* status of the decode proxy's response

estimator == <<quality, n, Q>>
config == <<algorithm_type, servers, D, H, V>>
locals == <<pc, selected_servers, latency, metrics, update_call, reg, response, calls>>
video == <<data, enc_k, enc_m, coded, pod_status, dpc, pod_num, blocks, indices, decoded, reply>>
vars == <<algorithm_type, servers, D, H, V, quality, n, Q, recorded, round_num, ret,
          pc, selected_servers, latency, metrics, update_call, reg, response, calls,
          data, enc_k, enc_m, coded, pod_status, dpc, pod_num, blocks, indices, decoded, reply>>

Threads == {"t1", "t2"}

Servers == {ServerOrder[i] : i \in 1 .. Len(ServerOrder)}

\* ------------------------------------------------------- helper operators

Range(s) == {s[i] : i \in 1 .. Len(s)}

IndexOf(s, x) == CHOOSE i \in 1 .. Len(s) : s[i] = x

Max(a, b) == IF a > b THEN a ELSE b

Min(a, b) == IF a < b THEN a ELSE b

RECURSIVE SubLists(_)
\* The sublists of a list: any of its elements, in its order.
SubLists(s) ==
    IF s = <<>> THEN {<<>>}
    ELSE LET rest == SubLists(Tail(s))
         IN  rest \cup {<<Head(s)>> \o r : r \in rest}

\* The registered lists the model starts from: the prefixes of ServerOrder.
RegisteredLists == {SubSeq(ServerOrder, 1, k) : k \in 1 .. Len(ServerOrder)}

\* Python's seq[:k] and seq[k:].
Take(s, k) == SubSeq(s, 1, Min(k, Len(s)))
Drop(s, k) == SubSeq(s, Min(k, Len(s)) + 1, Len(s))

\* Partial mappings from servers of S to values of Vals (a Python dict).
Dicts(S, Vals) == UNION {[K -> Vals] : K \in SUBSET S}

\* ------------------------------------------------------------ estimator

\* Smooth with the count incremented first: the weights are one too high.
SmoothCountFirst(qv, cnt, outcome) ==
    Rat(qv[1] * (cnt + 1) * outcome[2] + outcome[1] * qv[2],
        qv[2] * outcome[2] * (cnt + 2))

\* (quality * selections + outcome) / (selections + 1)
Smooth(qv, cnt, outcome) ==
    RDivInt(RAdd(RMul(qv, RInt(cnt)), outcome), cnt + 1)

\* L_EMS's estimate of one server: omega + sqrt((D + 1) * ln(round) / n).
L_ucb_estimate(server, round) ==
    RAdd(quality[server], Bonus(D + 1, round, n[server]))

\* D_EMS's estimate of one server: min(theta + sqrt(2 * ln(round) / n), 1.0).
D_ucb_estimate(server, round) ==
    RMin(RAdd(quality[server], Bonus(2, round, n[server])), One)

RECURSIVE ucb_estimates(_, _, _)
\* The dict the loop over self.servers fills, one server after the other.
ucb_estimates(kind, srvs, round) ==
    IF srvs = <<>> THEN <<>>
    ELSE (Head(srvs) :> (IF kind = "L_EMS" THEN L_ucb_estimate(Head(srvs), round)
                         ELSE D_ucb_estimate(Head(srvs), round)))
         @@ ucb_estimates(kind, Tail(srvs), round)

\* SortsBefore with equal estimates ordered by the later place in self.servers.
SortsBeforeLastFirst(ucb, a, b) ==
    \/ RLess(ucb[b], ucb[a])
    \/ ucb[a] = ucb[b] /\ IndexOf(servers, a) > IndexOf(servers, b)

\* a sorts before b: a higher estimate, or the same estimate and an earlier
\* place in self.servers (sorted() is stable, also with reverse=True).
SortsBefore(ucb, a, b) ==
    \/ RLess(ucb[b], ucb[a])
    \/ ucb[a] = ucb[b] /\ IndexOf(servers, a) < IndexOf(servers, b)

\* sorted(ucb_estimates.items(), key=lambda x: x[1], reverse=True), the servers of it.
sorted_servers(ucb) ==
    [i \in 1 .. Len(servers) |->
        CHOOSE s \in Range(servers) :
            Cardinality({x \in Range(servers) : SortsBefore(ucb, x, s)}) = i - 1]

L_EMS_select_servers(round) ==
    Take(sorted_servers(ucb_estimates("L_EMS", servers, round)), D)

\* The reward as the largest score of the set, whatever D.
calculate_reward_Largest(srvs, ucb) ==
    IF Len(srvs) < D THEN Zero
    ELSE CHOOSE v \in {ucb[s] : s \in Range(srvs)} :
            \A s \in Range(srvs) : RLeq(ucb[s], v)

\* A reward that grows as the lowest score of the set falls: 1 - the lowest.
calculate_reward_LowestLoss(srvs, ucb) ==
    IF Len(srvs) < D THEN Zero
    ELSE RSub(One, CHOOSE v \in {ucb[s] : s \in Range(srvs)} :
                      \A s \in Range(srvs) : RLeq(v, ucb[s]))

\* sorted(success_probs, reverse=True)[D - 1], or 0.0 for fewer than D servers.
calculate_reward(srvs, ucb) ==
    IF Len(srvs) < D THEN Zero
    ELSE CHOOSE v \in {ucb[s] : s \in Range(srvs)} :
            /\ Cardinality({i \in 1 .. Len(srvs) : RLess(v, ucb[srvs[i]])}) < D
            /\ Cardinality({i \in 1 .. Len(srvs) : RLeq(v, ucb[srvs[i]])}) >= D

\* LyapunovTest with >= for >.
LyapunovTestAtLeast(reward, current_reward) ==
    RLeq(RInt(Q), RMul(RInt(V), RSub(reward, current_reward)))

\* self.V * (reward - current_reward) > self.Q
LyapunovTest(reward, current_reward) ==
    RLess(RInt(Q), RMul(RInt(V), RSub(reward, current_reward)))

\* The scan that appends every remaining candidate, untested.
ScanCandidatesTakeAll(selected, rest, ucb) == selected \o rest

RECURSIVE ScanCandidates(_, _, _)
\* The loop over sorted_servers[self.D:]: append while the test passes, break at
\* the first candidate that fails it.
ScanCandidates(selected, rest, ucb) ==
    IF rest = <<>> THEN selected
    ELSE LET server == Head(rest)
             reward == calculate_reward(Append(selected, server), ucb)
             current_reward == calculate_reward(selected, ucb)
         IN  IF LyapunovTest(reward, current_reward)
             THEN ScanCandidates(Append(selected, server), Tail(rest), ucb)
             ELSE selected

D_EMS_select_servers(round) ==
    LET ucb == ucb_estimates("D_EMS", servers, round)
        sorted == sorted_servers(ucb)
    IN  ScanCandidates(Take(sorted, D), Drop(sorted, D), ucb)

\* The latency itself smoothed in as the outcome.
L_OutcomeLatency(lat) == lat

\* The outcome L_EMS.update smooths in: 1.0 - latencies[server].
L_Outcome(lat) == RSub(One, lat)

\* The outcome D_EMS.update smooths in: successes[server].
D_Outcome(success) == RInt(success)

Outcome(kind, metric) ==
    IF kind = "L_EMS" THEN L_Outcome(metric) ELSE D_Outcome(metric)

RECURSIVE UpdateLoopCountAll(_, _, _, _)
\* UpdateLoop with the count incremented outside the membership test: every
\* selected server is counted, reported or not.
UpdateLoopCountAll(kind, sel, outcomes, est) ==
    IF sel = <<>> THEN est
    ELSE LET server == Head(sel)
             q == est[1]
             cnt == est[2]
         IN  UpdateLoopCountAll(kind, Tail(sel), outcomes,
                <<IF server \in DOMAIN outcomes
                  THEN [q EXCEPT ![server] =
                          Smooth(q[server], cnt[server], Outcome(kind, outcomes[server]))]
                  ELSE q,
                  [cnt EXCEPT ![server] = cnt[server] + 1]>>)

RECURSIVE UpdateLoop(_, _, _, _)
\* for server in selected_servers: if server in outcomes: smooth, then count.
\* est is <<quality, n>>; the result is the pair after the loop.
UpdateLoop(kind, sel, outcomes, est) ==
    IF sel = <<>> THEN est
    ELSE LET server == Head(sel)
             q == est[1]
             cnt == est[2]
         IN  IF server \in DOMAIN outcomes
             THEN UpdateLoop(kind, Tail(sel), outcomes,
                    <<[q EXCEPT ![server] =
                          Smooth(q[server], cnt[server], Outcome(kind, outcomes[server]))],
                      [cnt EXCEPT ![server] = cnt[server] + 1]>>)
             ELSE UpdateLoop(kind, Tail(sel), outcomes, est)

\* NextQ without the floor at 0.
NextQNoFloor(q, sel) == q - H + Len(sel)

\* NextQ without the service of H: the backlog only accumulates.
NextQNoService(q, sel) == q + Len(sel)

\* self.Q = max(self.Q - self.H, 0) + len(selected_servers)
NextQ(q, sel) == Max(q - H, 0) + Len(sel)

\* ------------------------------------------- the selectors, call by call

\* Latencies a caller reports to L_EMS.update, normalised to the deadline.
LatencyValues == {Zero, One}

\* Success indicators a caller reports to D_EMS.update.
SuccessValues == {0, 1}

\* No selector call is in progress.
NoCall == [op |-> "none", round |-> 0, selected |-> <<>>, outcomes |-> <<>>,
           raised |-> "None", value |-> <<>>]

\* algorithm.update has not been called by the running get_chunk.
NoUpdate == [called |-> FALSE, selected |-> <<>>, outcomes |-> <<>>, todo |-> <<>>]

\* None, as decode_chunk returns it.
None == [is_none |-> TRUE, bytes |-> <<>>]

\* No chunk has been encoded.
NoCoded == [raised |-> FALSE, blocks |-> <<>>,
            metadata |-> [original_size |-> 0, padding_size |-> 0, k |-> 0, m |-> 0]]

\* The video pipeline is not part of the run.
VideoAbsent ==
    /\ data = <<>>
    /\ enc_k = 0
    /\ enc_m = 0
    /\ coded = NoCoded
    /\ pod_status = <<>>
    /\ dpc = "off"
    /\ pod_num = 0
    /\ blocks = <<>>
    /\ indices = <<>>
    /\ decoded = None
    /\ reply = 0

ThreadsIdle ==
    /\ pc = [t \in Threads |-> "idle"]
    /\ selected_servers = [t \in Threads |-> <<>>]
    /\ latency = [t \in Threads |-> <<>>]
    /\ metrics = [t \in Threads |-> <<>>]
    /\ update_call = [t \in Threads |-> NoUpdate]
    /\ reg = [t \in Threads |-> Zero]
    /\ response = [t \in Threads |-> 0]
    /\ calls = [t \in Threads |-> 0]

\* L_EMS.__init__ / D_EMS.__init__: every server starts at (0.5, 1), Q at 0.
Constructed(kind, srvs, d, h, v) ==
    /\ algorithm_type = kind
    /\ servers = srvs
    /\ D = d
    /\ H = h
    /\ V = v
    /\ quality = [s \in Range(srvs) |-> Half]
    /\ n = [s \in Range(srvs) |-> 1]
    /\ Q = 0
    /\ recorded = [s \in Range(srvs) |-> <<0, Zero>>]

\* A selector of either class, constructed over a registered list.
Init ==
    /\ \/ \E srvs \in RegisteredLists, d \in DValues :
            Constructed("L_EMS", srvs, d, 0, 0)
       \/ \E srvs \in RegisteredLists, p \in D_EMS_Params :
            Constructed("D_EMS", srvs, p[1], p[2], p[3])
    /\ round_num = 1
    /\ ret = NoCall
    /\ ThreadsIdle
    /\ VideoAbsent

\* A server of self.servers has no entry in the estimator's dicts: reading
\* self.omega[server] (self.theta[server]) raises KeyError.
UnknownServer == \E s \in Range(servers) : s \notin DOMAIN quality

\* L_select_servers counting a selection for every server it returns.
L_select_servers_Counting(round) ==
    /\ algorithm_type = "L_EMS"
    /\ ret = NoCall
    /\ ~UnknownServer
    /\ ret' = [NoCall EXCEPT !.op = "select_servers", !.round = round,
                             !.value = L_EMS_select_servers(round)]
    /\ n' = [s \in DOMAIN n |->
                IF s \in Range(L_EMS_select_servers(round)) THEN n[s] + 1 ELSE n[s]]
    /\ UNCHANGED <<recorded, video, config, quality, Q, round_num, locals>>

\* L_EMS.select_servers(round): the estimator is only read; the call returns
\* the list (the code has no raise statement), unless a dict lookup raises.
L_select_servers(round) ==
    /\ algorithm_type = "L_EMS"
    /\ ret = NoCall
    /\ ret' = IF UnknownServer
              THEN [NoCall EXCEPT !.op = "select_servers", !.round = round,
                                  !.raised = "KeyError"]
              ELSE [NoCall EXCEPT !.op = "select_servers", !.round = round,
                                  !.value = L_EMS_select_servers(round)]
    /\ UNCHANGED <<recorded, video, config, estimator, round_num, locals>>

\* D_EMS.select_servers(round): the estimator is only read; the call returns
\* the list (the code has no raise statement), unless a dict lookup raises.
D_select_servers(round) ==
    /\ algorithm_type = "D_EMS"
    /\ ret = NoCall
    /\ ret' = IF UnknownServer
              THEN [NoCall EXCEPT !.op = "select_servers", !.round = round,
                                  !.raised = "KeyError"]
              ELSE [NoCall EXCEPT !.op = "select_servers", !.round = round,
                                  !.value = D_EMS_select_servers(round)]
    /\ UNCHANGED <<recorded, video, config, estimator, round_num, locals>>

\* The history after an update call: each selected server found in the outcome
\* mapping has one more outcome on record.
Recorded(sel, outcomes) ==
    [s \in DOMAIN recorded |->
        IF s \in Range(sel) /\ s \in DOMAIN outcomes
        THEN <<recorded[s][1] + 1, RAdd(recorded[s][2], outcomes[s])>>
        ELSE recorded[s]]

RECURSIVE UpdatesDone(_)
\* The outcomes smoothed in so far for the servers of S: selections start at 1.
UpdatesDone(S) ==
    IF S = {} THEN 0
    ELSE LET s == CHOOSE x \in S : TRUE
         IN  (n[s] - 1) + UpdatesDone(S \ {s})

\* The model's cap on the estimator's growth.
WithinUpdates(sel, outcomes) ==
    UpdatesDone(DOMAIN n) + Cardinality(Range(sel) \cap DOMAIN outcomes) <= MaxUpdates

\* L_EMS.update(selected_servers, latencies)
L_update(sel, latencies) ==
    /\ algorithm_type = "L_EMS"
    /\ ret = NoCall
    /\ WithinUpdates(sel, latencies)
    /\ LET est == UpdateLoop("L_EMS", sel, latencies, <<quality, n>>)
       IN  /\ quality' = est[1]
           /\ n' = est[2]
    /\ recorded' = Recorded(sel, [s \in DOMAIN latencies |-> RSub(One, latencies[s])])
    /\ ret' = [NoCall EXCEPT !.op = "update", !.selected = sel, !.outcomes = latencies]
    /\ UNCHANGED <<video, config, Q, round_num, locals>>

\* D_EMS.update(selected_servers, successes)
D_update(sel, successes) ==
    /\ algorithm_type = "D_EMS"
    /\ ret = NoCall
    /\ WithinUpdates(sel, successes)
    /\ NextQ(Q, sel) <= MaxQ
    /\ LET est == UpdateLoop("D_EMS", sel, successes, <<quality, n>>)
       IN  /\ quality' = est[1]
           /\ n' = est[2]
    /\ Q' = NextQ(Q, sel)
    /\ recorded' = Recorded(sel, [s \in DOMAIN successes |-> <<successes[s], 1>>])
    /\ ret' = [NoCall EXCEPT !.op = "update", !.selected = sel, !.outcomes = successes]
    /\ UNCHANGED <<video, config, round_num, locals>>

\* The caller takes the result: the call's frame is gone.
Return ==
    /\ ret # NoCall
    /\ ret' = NoCall
    /\ UNCHANGED <<recorded, video, config, estimator, round_num, locals>>

Next ==
    \/ \E round \in 1 .. MaxRound : L_select_servers(round)
    \/ \E round \in 1 .. MaxRound : D_select_servers(round)
    \/ \E sel \in SubLists(servers) :
         \E latencies \in Dicts(Range(servers), LatencyValues) : L_update(sel, latencies)
    \/ \E sel \in SubLists(servers) :
         \E successes \in Dicts(Range(servers), SuccessValues) : D_update(sel, successes)
    \/ Return

Spec == Init /\ [][Next]_vars

\* ------------------------------------ the proxy loop, round after round

\* The parameters D_EMS runs the loop with: the model's pairs, H above and
\* below D, and the defaults the proxy constructs it with.
LoopParams == D_EMS_Params \cup {<<DefaultD, DefaultH, DefaultV>>}

\* D_EMS constructed over a registered list; the first round is round 1.
InitLoop ==
    /\ \E srvs \in RegisteredLists, p \in LoopParams :
          Constructed("D_EMS", srvs, p[1], p[2], p[3])
    /\ round_num = 1
    /\ ret = NoCall
    /\ ThreadsIdle
    /\ VideoAbsent

\* Step 1 of get_chunk: selected_servers = algorithm.select_servers(round_num)
LoopSelect ==
    /\ round_num <= MaxRound
    /\ D_select_servers(round_num)

\* Step 4 of get_chunk: algorithm.update(selected_servers, metrics), with the
\* success indicator download_blocks has stored for every selected server.
LoopUpdate(successes) ==
    /\ algorithm_type = "D_EMS"
    /\ ret.op = "select_servers"
    /\ ret.raised = "None"
    /\ LET est == UpdateLoop("D_EMS", ret.value, successes, <<quality, n>>)
       IN  /\ quality' = est[1]
           /\ n' = est[2]
    /\ Q' = NextQ(Q, ret.value)
    /\ ret' = [NoCall EXCEPT !.op = "update", !.selected = ret.value,
                             !.outcomes = successes]
    /\ recorded' = Recorded(ret.value, [s \in DOMAIN successes |-> <<successes[s], 1>>])
    /\ UNCHANGED <<video, config, round_num, locals>>

\* round_num += 1, and the chunk is returned.
LoopReturn ==
    /\ ret.op = "update"
    /\ ret' = NoCall
    /\ round_num' = round_num + 1
    /\ UNCHANGED <<recorded, video, config, estimator, locals>>

NextLoop ==
    \/ LoopSelect
    \/ \E successes \in [Range(ret.value) -> SuccessValues] : LoopUpdate(successes)
    \/ LoopReturn

SpecLoop == InitLoop /\ [][NextLoop]_vars

\* ------------------------------- the selectors, used by any caller

\* Latencies a caller may hand to L_EMS.update: in range, above 1, below 0.
AnyLatencyValues == {Half, <<2, 1>>, <<-1, 1>>}

\* A selector constructed over a list that leaves a server to appear later.
InitOpen == Init /\ Len(servers) < Len(ServerOrder)

\* The servers the estimator has entries for, in the order of self.servers: a
\* caller selects among what select_servers can return.
KnownServers == SelectSeq(servers, LAMBDA s : s \in DOMAIN quality)

\* The server universe gains a server between rounds: self.servers is the
\* caller's list, and it grows; nothing is added to the estimator's dicts.
ServerAppears(s) ==
    /\ ret = NoCall
    /\ s \notin Range(servers)
    /\ servers' = Append(servers, s)
    /\ UNCHANGED <<recorded, video, algorithm_type, D, H, V, estimator, round_num, ret, locals>>

NextOpen ==
    \/ \E round \in 1 .. MaxRound : L_select_servers(round)
    \/ \E round \in 1 .. MaxRound : D_select_servers(round)
    \/ \E sel \in SubLists(KnownServers) :
         \E latencies \in Dicts(DOMAIN quality, AnyLatencyValues) : L_update(sel, latencies)
    \/ \E sel \in SubLists(KnownServers) :
         \E successes \in Dicts(DOMAIN quality, SuccessValues) : D_update(sel, successes)
    \/ \E s \in Servers : ServerAppears(s)
    \/ Return

SpecOpen == InitOpen /\ [][NextOpen]_vars

\* ------------------------------------------------ the proxy's get_chunk

\* deadline = 1.0
Deadline == One

\* Latencies download_blocks can measure: within the deadline and beyond it.
LatencySamples == {<<1, 2>>, <<3, 2>>}

\* The server lists the proxy is started with.
ProxyLists == {s \in RegisteredLists : Len(s) <= 2}

\* download_blocks' metric of one server: min(latency / deadline, 1.0) for
\* L_EMS, 1 if latency <= deadline else 0 otherwise.
DownloadMetric(kind, lat) ==
    IF kind = "L_EMS"
    THEN RMin(Rat(lat[1] * Deadline[2], lat[2] * Deadline[1]), One)
    ELSE IF RLeq(lat, Deadline) THEN 1 ELSE 0

\* initialize_server_list: the assignment file is read and the selector built
\* with its default parameters, or the read fails and algorithm stays None.
InitProxy ==
    /\ \/ \E srvs \in ProxyLists : Constructed("L_EMS", srvs, DefaultD, 0, 0)
       \/ \E srvs \in ProxyLists :
            Constructed("D_EMS", srvs, DefaultD, DefaultH, DefaultV)
       \/ Constructed("None", <<>>, 0, 0, 0)
    /\ round_num = 1
    /\ ret = NoCall
    /\ ThreadsIdle
    /\ VideoAbsent

RECURSIVE SkipAbsent(_, _)
\* The update loop passes over the servers that are not in the outcomes.
SkipAbsent(todo, outcomes) ==
    IF todo = <<>> \/ Head(todo) \in DOMAIN outcomes THEN todo
    ELSE SkipAbsent(Tail(todo), outcomes)

\* Where update goes with `todo` left to visit: the next server's smoothing, or
\* past the loop (the queue update of D_EMS, then get_chunk's round increment).
AfterLoop(todo) ==
    IF todo # <<>> THEN "upd_load"
    ELSE IF algorithm_type = "D_EMS" THEN "q_load" ELSE "round_load"

RECURSIVE Received(_)
\* Requests received so far by the threads in S: served, or being served.
Received(S) ==
    IF S = {} THEN 0
    ELSE LET t == CHOOSE x \in S : TRUE
         IN  calls[t] + (IF pc[t] = "idle" THEN 0 ELSE 1) + Received(S \ {t})

\* get_chunk with algorithm = None: select_servers raises, the handler answers
\* 500; nothing else of the try block runs.
GetChunkFails(t) ==
    /\ pc[t] = "idle"
    /\ Received(Threads) < MaxCalls
    /\ algorithm_type = "None"
    /\ response' = [response EXCEPT ![t] = 500]
    /\ calls' = [calls EXCEPT ![t] = calls[t] + 1]
    /\ selected_servers' = [selected_servers EXCEPT ![t] = <<>>]
    /\ latency' = [latency EXCEPT ![t] = <<>>]
    /\ metrics' = [metrics EXCEPT ![t] = <<>>]
    /\ update_call' = [update_call EXCEPT ![t] = NoUpdate]
    /\ UNCHANGED <<recorded, video, config, estimator, round_num, ret, pc, reg>>

\* Step 1: selected_servers = algorithm.select_servers(round_num)
GetChunkSelect(t) ==
    /\ pc[t] = "idle"
    /\ Received(Threads) < MaxCalls
    /\ algorithm_type # "None"
    /\ selected_servers' = [selected_servers EXCEPT ![t] =
            IF algorithm_type = "L_EMS" THEN L_EMS_select_servers(round_num)
            ELSE D_EMS_select_servers(round_num)]
    /\ latency' = [latency EXCEPT ![t] = <<>>]
    /\ metrics' = [metrics EXCEPT ![t] = <<>>]
    /\ update_call' = [update_call EXCEPT ![t] = NoUpdate]
    /\ response' = [response EXCEPT ![t] = 0]
    /\ pc' = [pc EXCEPT ![t] = "download"]
    /\ UNCHANGED <<recorded, video, config, estimator, round_num, ret, reg, calls>>

\* Step 2: blocks, metrics = download_blocks(chunk_name, selected_servers)
DownloadBlocks(t) ==
    /\ pc[t] = "download"
    /\ \E lat \in [Range(selected_servers[t]) -> LatencySamples] :
          /\ latency' = [latency EXCEPT ![t] = lat]
          /\ metrics' = [metrics EXCEPT ![t] =
                [s \in Range(selected_servers[t]) |->
                    DownloadMetric(algorithm_type, lat[s])]]
    /\ pc' = [pc EXCEPT ![t] = "decode"]
    /\ UNCHANGED <<recorded, video, config, estimator, round_num, ret, selected_servers,
                   update_call, reg, response, calls>>

\* Step 3: decode_blocks joins the blocks; step 4 then calls
\* algorithm.update(selected_servers, metrics).
DecodeAndCallUpdate(t) ==
    /\ pc[t] = "decode"
    /\ LET todo == SkipAbsent(selected_servers[t], metrics[t])
       IN  /\ update_call' = [update_call EXCEPT ![t] =
                  [called |-> TRUE, selected |-> selected_servers[t],
                   outcomes |-> metrics[t], todo |-> todo]]
           /\ pc' = [pc EXCEPT ![t] = AfterLoop(todo)]
    /\ UNCHANGED <<recorded, video, config, estimator, round_num, ret, selected_servers, latency,
                   metrics, reg, response, calls>>

\* Step 3 raising: decode_blocks allocates the joined chunk, and whatever it
\* raises lands in get_chunk's except clause, which answers 500. Steps 4 and
\* the round increment are skipped.
DecodeFails(t) ==
    /\ pc[t] = "decode"
    /\ response' = [response EXCEPT ![t] = 500]
    /\ calls' = [calls EXCEPT ![t] = calls[t] + 1]
    /\ pc' = [pc EXCEPT ![t] = "idle"]
    /\ UNCHANGED <<recorded, video, config, estimator, round_num, ret, selected_servers, latency,
                   metrics, update_call, reg>>

\* update, right-hand side of the quality assignment: the server's pair is read
\* and the smoothed value computed.
UpdateLoadQuality(t) ==
    /\ pc[t] = "upd_load"
    /\ LET server == Head(update_call[t].todo)
       IN  reg' = [reg EXCEPT ![t] =
                Smooth(quality[server], n[server],
                       Outcome(algorithm_type, update_call[t].outcomes[server]))]
    /\ pc' = [pc EXCEPT ![t] = "upd_store"]
    /\ UNCHANGED <<recorded, video, config, estimator, round_num, ret, selected_servers, latency,
                   metrics, update_call, response, calls>>

\* update: the smoothed value is stored as the server's quality.
UpdateStoreQuality(t) ==
    /\ pc[t] = "upd_store"
    /\ quality' = [quality EXCEPT ![Head(update_call[t].todo)] = reg[t]]
    /\ pc' = [pc EXCEPT ![t] = "cnt_load"]
    /\ UNCHANGED <<recorded, video, config, n, Q, round_num, ret, selected_servers, latency,
                   metrics, update_call, reg, response, calls>>

\* update, self.n[server] += 1: the count is read.
UpdateLoadCount(t) ==
    /\ pc[t] = "cnt_load"
    /\ reg' = [reg EXCEPT ![t] = RInt(n[Head(update_call[t].todo)])]
    /\ pc' = [pc EXCEPT ![t] = "cnt_store"]
    /\ UNCHANGED <<recorded, video, config, estimator, round_num, ret, selected_servers, latency,
                   metrics, update_call, response, calls>>

\* update, self.n[server] += 1: the count read, plus one, is stored; the loop
\* moves on.
UpdateStoreCount(t) ==
    /\ pc[t] = "cnt_store"
    /\ n' = [n EXCEPT ![Head(update_call[t].todo)] = reg[t][1] + 1]
    /\ LET todo == SkipAbsent(Tail(update_call[t].todo), update_call[t].outcomes)
       IN  /\ update_call' = [update_call EXCEPT ![t].todo = todo]
           /\ pc' = [pc EXCEPT ![t] = AfterLoop(todo)]
    /\ UNCHANGED <<recorded, video, config, quality, Q, round_num, ret, selected_servers, latency,
                   metrics, reg, response, calls>>

\* D_EMS.update, the queue: max(self.Q - self.H, 0) + len(selected_servers) is
\* computed from the Q read.
QueueLoad(t) ==
    /\ pc[t] = "q_load"
    /\ reg' = [reg EXCEPT ![t] = RInt(NextQ(Q, update_call[t].selected))]
    /\ pc' = [pc EXCEPT ![t] = "q_store"]
    /\ UNCHANGED <<recorded, video, config, estimator, round_num, ret, selected_servers, latency,
                   metrics, update_call, response, calls>>

\* D_EMS.update, the queue: the value computed is stored in self.Q.
QueueStore(t) ==
    /\ pc[t] = "q_store"
    /\ Q' = reg[t][1]
    /\ pc' = [pc EXCEPT ![t] = "round_load"]
    /\ UNCHANGED <<recorded, video, config, quality, n, round_num, ret, selected_servers, latency,
                   metrics, update_call, reg, response, calls>>

\* round_num += 1: the global is read.
RoundLoad(t) ==
    /\ pc[t] = "round_load"
    /\ reg' = [reg EXCEPT ![t] = RInt(round_num)]
    /\ pc' = [pc EXCEPT ![t] = "round_store"]
    /\ UNCHANGED <<recorded, video, config, estimator, round_num, ret, selected_servers, latency,
                   metrics, update_call, response, calls>>

\* round_num += 1: the value read, plus one, is stored; get_chunk returns the
\* chunk.
RoundStoreAndReturn(t) ==
    /\ pc[t] = "round_store"
    /\ round_num' = reg[t][1] + 1
    /\ response' = [response EXCEPT ![t] = 200]
    /\ calls' = [calls EXCEPT ![t] = calls[t] + 1]
    /\ pc' = [pc EXCEPT ![t] = "idle"]
    /\ UNCHANGED <<recorded, video, config, estimator, ret, selected_servers, latency, metrics,
                   update_call, reg>>

\* One step of a worker thread serving /proxy/<chunk_name>.mp4.
GetChunk(t) ==
    \/ GetChunkFails(t)
    \/ GetChunkSelect(t)
    \/ DownloadBlocks(t)
    \/ DecodeAndCallUpdate(t)
    \/ DecodeFails(t)
    \/ UpdateLoadQuality(t)
    \/ UpdateStoreQuality(t)
    \/ UpdateLoadCount(t)
    \/ UpdateStoreCount(t)
    \/ QueueLoad(t)
    \/ QueueStore(t)
    \/ RoundLoad(t)
    \/ RoundStoreAndReturn(t)

\* Flask serves each request on a thread of its own: the steps of the worker
\* threads interleave.
NextProxy == \E t \in Threads : GetChunk(t)

SpecProxy == InitProxy /\ [][NextProxy]_vars

\* One request at a time.
NextProxySeq == GetChunk("t1")

SpecProxySeq == InitProxy /\ [][NextProxySeq]_vars

\* ------------------------------------------------- the selectors' claims

\* A selector call has just been made by this step.
Called(op) == ret = NoCall /\ ret'.op = op

\* The call select_servers(round) of the selector has returned ret.value.
Selected(kind) == algorithm_type = kind /\ ret.op = "select_servers"

\* No server occurs twice in the list.
Distinct(s) == \A i, j \in 1 .. Len(s) : i # j => s[i] # s[j]

\* C1: L_EMS.select_servers returns exactly D distinct servers, and every
\* returned server has a UCB score at least as high as every server that was
\* not returned, in every reachable estimator state and for every round >= 1.
C1_ExactlyDTopScored ==
    Selected("L_EMS") =>
        /\ Len(ret.value) = D
        /\ Distinct(ret.value)
        /\ \A a \in Range(ret.value), b \in Range(servers) \ Range(ret.value) :
              RLeq(L_ucb_estimate(b, ret.round), L_ucb_estimate(a, ret.round))

\* C2: with fewer than D servers registered, select_servers of either selector
\* fails with InsufficientServers and returns no selection.
C2_InsufficientServers ==
    (ret.op = "select_servers" /\ Len(servers) < D) =>
        ret.raised = "InsufficientServers" /\ ret.value = <<>>

\* V * (reward(selected + candidate) - reward(selected)) > Q, for the D_EMS
\* estimates of the given round.
GainExceedsBacklog(selected, candidate, round) ==
    LET ucb == ucb_estimates("D_EMS", servers, round)
        gain == RSub(calculate_reward(Append(selected, candidate), ucb),
                     calculate_reward(selected, ucb))
    IN  Q * gain[2] < V * gain[1]

\* C3: with at least D servers registered, D_EMS.select_servers returns the D
\* highest-scored servers followed by a contiguous prefix, in descending score
\* order, of the remaining servers: a candidate is appended exactly when
\* V * (reward(selected + candidate) - reward(selected)) > Q, and nothing is
\* appended after the first candidate that fails this test.
C3_TopDThenGainPrefix ==
    (Selected("D_EMS") /\ Len(servers) >= D) =>
        LET sel == ret.value
            ranked == sorted_servers(ucb_estimates("D_EMS", servers, ret.round))
        IN  /\ Len(sel) >= D
            /\ sel = Take(ranked, Len(sel))
            /\ \A a \in Range(Take(sel, D)), b \in Range(servers) \ Range(Take(sel, D)) :
                  RLeq(D_ucb_estimate(b, ret.round), D_ucb_estimate(a, ret.round))
            /\ \A i \in D + 1 .. Len(sel) :
                  GainExceedsBacklog(Take(sel, i - 1), sel[i], ret.round)
            /\ Len(sel) < Len(ranked) =>
                  ~GainExceedsBacklog(sel, ranked[Len(sel) + 1], ret.round)

\* D_EMS has ranked more than D servers whose estimates differ: candidates
\* beyond the top D were there to be scanned.
C3_Witness ==
    /\ Selected("D_EMS")
    /\ Len(servers) > D
    /\ Len(ret.value) >= D
    /\ \E a, b \in Range(servers) :
          RLess(D_ucb_estimate(a, ret.round), D_ucb_estimate(b, ret.round))

\* C4: in every L_EMS.update and D_EMS.update call, a server's (quality,
\* selections) pair changes only if the server is both in the selected list
\* and in the outcome mapping; every other server's pair is left unchanged.
C4_UpdateFrame ==
    [][Called("update") =>
        \A s \in Range(servers) :
            (quality'[s] # quality[s] \/ n'[s] # n[s]) =>
                (s \in Range(ret'.selected) /\ s \in DOMAIN ret'.outcomes)]_vars

\* An update has run with one server selected but absent from the outcomes
\* (untouched), one reported but not selected (untouched), one in both (counted).
C4_Witness ==
    /\ ret.op = "update"
    /\ \E s \in Range(ret.selected) \ DOMAIN ret.outcomes : n[s] = 1
    /\ \E s \in DOMAIN ret.outcomes \ Range(ret.selected) : n[s] = 1
    /\ \E s \in Range(ret.selected) \cap DOMAIN ret.outcomes : n[s] = 2

\* C5: for each selected server present in the outcome mapping, one update
\* call sets quality_new * (selections_old + 1) = quality_old * selections_old
\* + outcome (1 - latency for L_EMS, the success indicator for D_EMS) and
\* increases the server's selections by exactly 1.
C5_IncrementalMean ==
    [][Called("update") =>
        \A s \in Range(ret'.selected) \cap DOMAIN ret'.outcomes :
            LET outcome == IF algorithm_type = "L_EMS"
                           THEN RSub(One, ret'.outcomes[s])
                           ELSE <<ret'.outcomes[s], 1>>
            IN  /\ RMul(quality'[s], <<n[s] + 1, 1>>)
                      = RAdd(RMul(quality[s], <<n[s], 1>>), outcome)
                /\ n'[s] = n[s] + 1]_vars

\* An update has smoothed an outcome into a server that had been updated
\* before, moving its quality off the initial 0.5.
C5_Witness ==
    /\ ret.op = "update"
    /\ \E s \in Range(ret.selected) \cap DOMAIN ret.outcomes :
          n[s] = 3 /\ quality[s] # Half

\* C6: the backlog Q of D_EMS starts at 0, is changed only by update, and every
\* update call (also one with an empty outcome mapping) sets Q to
\* max(Q - H, 0) + the number of selected servers; so Q is never negative.
C6_Backlog ==
    /\ algorithm_type = "D_EMS" => Q = 0
    /\ [][algorithm_type = "D_EMS" =>
            IF Called("update")
            THEN Q' = (IF Q - H > 0 THEN Q - H ELSE 0) + Len(ret'.selected)
            ELSE Q' = Q]_vars
    /\ [](Q >= 0)

\* An update with an empty outcome mapping has run on a D_EMS whose backlog
\* carried over from earlier rounds: Q is above this round's selection size.
C6_Witness ==
    /\ algorithm_type = "D_EMS"
    /\ ret.op = "update"
    /\ DOMAIN ret.outcomes = {}
    /\ Len(ret.selected) >= 1
    /\ Q > Len(ret.selected)

RECURSIVE MaxOf(_)
\* The largest of a non-empty list of scores.
MaxOf(scores) ==
    IF Len(scores) = 1 THEN scores[1]
    ELSE LET rest == MaxOf(Tail(scores))
         IN  IF RLess(Head(scores), rest) THEN rest ELSE Head(scores)

RECURSIVE RemoveOne(_, _)
\* The list without the first occurrence of v.
RemoveOne(scores, v) ==
    IF Head(scores) = v THEN Tail(scores)
    ELSE <<Head(scores)>> \o RemoveOne(Tail(scores), v)

RECURSIVE NthLargest(_, _)
\* The i-th largest of a list of at least i scores, counting repetitions.
NthLargest(scores, i) ==
    IF i = 1 THEN MaxOf(scores)
    ELSE NthLargest(RemoveOne(scores, MaxOf(scores)), i - 1)

\* C19: the reward of a server set is 0 when the set has fewer than D servers
\* and otherwise the D-th largest score among its servers; adding a server to
\* a set never lowers its reward.
C19_Reward ==
    Selected("D_EMS") =>
        LET ucb == ucb_estimates("D_EMS", servers, ret.round)
        IN  \A set \in SubLists(servers) :
              /\ Len(set) < D => calculate_reward(set, ucb) = Zero
              /\ Len(set) >= D =>
                    calculate_reward(set, ucb)
                        = NthLargest([i \in 1 .. Len(set) |-> ucb[set[i]]], D)
              /\ \A s \in Range(servers) :
                    RLeq(calculate_reward(set, ucb),
                         calculate_reward(Append(set, s), ucb))

\* D_EMS has scored three servers, not all alike, with D = 2: sets below D,
\* of D and above D servers have been rewarded.
C19_Witness ==
    /\ Selected("D_EMS")
    /\ D = 2
    /\ Len(servers) = 3
    /\ \E a, b \in Range(servers) :
          RLess(D_ucb_estimate(a, ret.round), D_ucb_estimate(b, ret.round))

RECURSIVE FullScan(_, _, _)
\* The scan that tests every remaining candidate and never stops early.
FullScan(selected, rest, ucb) ==
    IF rest = <<>> THEN selected
    ELSE LET server == Head(rest)
             reward == calculate_reward(Append(selected, server), ucb)
             current_reward == calculate_reward(selected, ucb)
         IN  FullScan(IF LyapunovTest(reward, current_reward)
                      THEN Append(selected, server) ELSE selected,
                      Tail(rest), ucb)

\* C20: the early stop of D_EMS.select_servers is exact: the selection
\* returned with the break at the first failing candidate is the selection a
\* scan testing every remaining candidate would return.
C20_GreedyExact ==
    Selected("D_EMS") =>
        LET ucb == ucb_estimates("D_EMS", servers, ret.round)
            ranked == sorted_servers(ucb)
        IN  ret.value = FullScan(Take(ranked, D), Drop(ranked, D), ucb)

\* D_EMS has selected with two candidates beyond the top D to scan, the last
\* scored below the others, and an empty backlog.
C20_Witness ==
    /\ Selected("D_EMS")
    /\ Len(servers) >= D + 2
    /\ Q = 0
    /\ \E a \in Range(servers) :
          RLess(D_ucb_estimate(servers[Len(servers)], ret.round),
                D_ucb_estimate(a, ret.round))

\* C17: when the server universe has gained a server that has no (quality,
\* selections) entry, the next select_servers does not fail: the server gets
\* quality 0.5 and selections 1 and is ranked with the others.
C17_NewServerTolerated ==
    (ret.op = "select_servers") =>
        /\ ret.raised = "None"
        /\ \A s \in Range(servers) :
              s \in DOMAIN quality /\ (s \notin Range(ret.value) => Len(ret.value) >= D)

\* C18: after any sequence of L_EMS.update calls, with latencies below 0 or
\* above 1 among them, every server's quality is within [0, 1].
C18_QualityInRange ==
    algorithm_type = "L_EMS" =>
        \A s \in DOMAIN quality : RLeq(Zero, quality[s]) /\ RLeq(quality[s], One)

\* C21: select_servers is deterministic: the ordered selection is fixed by the
\* estimator state, the server list and the round. The server returned at
\* place i is the one server with exactly i - 1 servers ahead of it, where a is
\* ahead of b when its score is higher, or equal and a comes earlier in the
\* registered list; at round 1 with fresh state the first D registered servers
\* are returned.
C21_Deterministic ==
    (ret.op = "select_servers" /\ ret.raised = "None") =>
        LET sel == ret.value
            score(s) == IF algorithm_type = "L_EMS"
                        THEN L_ucb_estimate(s, ret.round)
                        ELSE D_ucb_estimate(s, ret.round)
            Ahead(a, b) ==
                \/ RLess(score(b), score(a))
                \/ score(a) = score(b) /\ IndexOf(servers, a) < IndexOf(servers, b)
        IN  /\ \A i \in 1 .. Len(sel) :
                  /\ sel[i] \in Range(servers)
                  /\ Cardinality({x \in Range(servers) : Ahead(x, sel[i])}) = i - 1
            /\ ( /\ ret.round = 1
                 /\ \A s \in Range(servers) : quality[s] = Half /\ n[s] = 1 )
                  => sel = Take(servers, D)

\* A selection was made after updates, with a returned server and a server
\* left out holding the same score: the place in the list decided.
C21_Witness ==
    /\ ret.op = "select_servers"
    /\ \E s \in Range(servers) : n[s] > 1
    /\ \E a \in Range(ret.value), b \in Range(servers) \ Range(ret.value) :
          /\ quality[a] = quality[b]
          /\ n[a] = n[b]

\* C22: in every reachable state (Q >= 0, V >= 0), D_EMS.select_servers
\* returns exactly min(D, number of registered servers) servers: adding any
\* server outside the top D to the top D leaves the reward, the D-th largest
\* score, as it was, so the gain is 0, V * gain > Q never passes and the
\* selection never grows beyond D.
C22_NeverBeyondD ==
    Selected("D_EMS") =>
        LET ucb == ucb_estimates("D_EMS", servers, ret.round)
            top == Take(sorted_servers(ucb), D)
        IN  /\ Q >= 0
            /\ V >= 0
            /\ Len(ret.value) = Min(D, Len(servers))
            /\ \A c \in Range(servers) \ Range(top) :
                  /\ calculate_reward(Append(top, c), ucb) = calculate_reward(top, ucb)
                  /\ ~LyapunovTest(calculate_reward(Append(top, c), ucb),
                                   calculate_reward(top, ucb))

\* D_EMS has selected with an empty backlog and a positive V, and a server
\* scored below every selected one was left out.
C22_Witness ==
    /\ Selected("D_EMS")
    /\ Q = 0
    /\ V > 0
    /\ \E c \in Range(servers) \ Range(ret.value) :
          \A s \in Range(ret.value) :
              RLess(D_ucb_estimate(c, ret.round), D_ucb_estimate(s, ret.round))

\* The loop's update of this round has just run on the round's selection.
LoopUpdated == ret.op = "select_servers" /\ ret'.op = "update"

\* C23: in the proxy loop (select_servers, then update, each round) with
\* H >= D, after every update Q equals the number of servers selected in that
\* round, so Q <= H in every reachable state; with H < D, Q grows by D - H
\* in every round.
C23_BacklogPerRound ==
    /\ [](H >= D => Q <= H)
    /\ [][LoopUpdated =>
            IF H >= D THEN Q' = Len(ret'.selected)
            ELSE Q' = Q + (D - H)]_vars

\* C23, amended: as C23 for H >= D; with H < D and at least D servers
\* registered, the update of round 1 sets Q to D, and the update of every
\* later round adds D - H to Q.
C23_BacklogPerRoundAmended ==
    /\ [](H >= D => Q <= H)
    /\ [][LoopUpdated =>
            IF H >= D THEN Q' = Len(ret'.selected)
            ELSE Len(servers) >= D =>
                    Q' = (IF round_num = 1 THEN D ELSE Q + (D - H))]_vars

\* With H < D, the update of round 2 has run: Q is D from round 1, plus D - H.
C23_Witness ==
    /\ H < D
    /\ Len(servers) >= D
    /\ ret.op = "update"
    /\ round_num = 2
    /\ Q = D + (D - H)

\* C24: after any sequence of update calls, every server's selections equals
\* 1 plus the number of outcomes recorded for it (so selections >= 1, and it
\* never decreases), and quality * selections equals 0.5 plus the sum of
\* those recorded outcomes.
C24_Accounting ==
    /\ [](\A s \in DOMAIN n :
            /\ n[s] = 1 + recorded[s][1]
            /\ n[s] >= 1
            /\ RMul(quality[s], RInt(n[s])) = RAdd(Half, recorded[s][2]))
    /\ [][\A s \in DOMAIN n : n'[s] >= n[s]]_vars

\* Update calls have recorded two unlike outcomes for one server and none for
\* another.
C24_Witness ==
    /\ \E s \in DOMAIN n : recorded[s][1] = 2 /\ recorded[s][2] = One
    /\ \E s \in DOMAIN n : recorded[s][1] = 0

\* C25: select_servers of both selectors is read-only: it leaves every
\* server's quality and selections, the server list, D, H, V and the backlog Q
\* unchanged, so the state later selections are computed from is the same
\* however many times it is called between two updates.
C25_SelectReadOnly ==
    [][Called("select_servers") =>
        UNCHANGED <<quality, n, servers, D, H, V, Q>>]_vars

\* select_servers has returned on an estimator that updates had moved off its
\* initial state.
C25_Witness ==
    /\ ret.op = "select_servers"
    /\ ret.value # <<>>
    /\ \E s \in Range(servers) : n[s] > 1 /\ quality[s] # Half

\* ---------------------------------------------------- the proxy's claims

\* The step of thread t that ends an invocation of get_chunk.
Finishes(t) == calls'[t] = calls[t] + 1

\* C7: every invocation of get_chunk increases the round counter by exactly
\* one, whether it returns the chunk or fails: with one request at a time, the
\* counter is 1 plus the number of invocations finished whenever no request is
\* being served.
C7_RoundPerInvocation ==
    pc["t1"] = "idle" => round_num = 1 + calls["t1"]

\* C8: every invocation of get_chunk that obtained a selection has called
\* update with the metrics gathered by the time it returns or fails, and the
\* metrics hold, for every selected server, an entry that is the worst-case
\* value (latency 1.0 for L_EMS, success 0 for D_EMS) when the fetch missed the
\* deadline.
C8_UpdateBeforeReturn ==
    [][\A t \in Threads :
         (Finishes(t) /\ pc[t] # "idle") =>
            /\ update_call[t].called
            /\ update_call[t].selected = selected_servers[t]
            /\ update_call[t].outcomes = metrics[t]
            /\ \A s \in Range(selected_servers[t]) :
                  /\ s \in DOMAIN metrics[t]
                  /\ ~RLeq(latency[t][s], Deadline) =>
                        metrics[t][s] = (IF algorithm_type = "L_EMS" THEN One ELSE 0)
      ]_vars

\* The outcome thread t reported for server s, as update smooths it.
OutcomeOf(t, s) == Outcome(algorithm_type, update_call[t].outcomes[s])

\* C9: when two requests have both updated a server, no update is lost: once
\* both have returned, the server's count has grown by 2 from its initial 1 and
\* its quality is the mean of the initial 0.5 and the two outcomes.
C9_NoLostUpdate ==
    (\A t \in Threads : pc[t] = "idle" /\ calls[t] = 1 /\ response[t] = 200) =>
        \A s \in Range(servers) :
            (\A t \in Threads : s \in Range(update_call[t].selected)
                                /\ s \in DOMAIN update_call[t].outcomes) =>
                /\ n[s] = 3
                /\ RMul(quality[s], RInt(3)) =
                      RAdd(Half, RAdd(OutcomeOf("t1", s), OutcomeOf("t2", s)))

\* Thread u has stored a new quality for server s and not yet the count that
\* goes with it.
TornPair(u, s) ==
    /\ pc[u] \in {"cnt_load", "cnt_store"}
    /\ Head(update_call[u].todo) = s
    /\ quality[s] # OutcomeOf(u, s)

\* C10: a select_servers call never reads, for any server, the new quality of
\* a running update together with the old count.
C10_NoTornRead ==
    [][\A t \in Threads :
         (pc[t] = "idle" /\ pc'[t] = "download") =>
            \A s \in Range(servers) : \A u \in Threads : ~TornPair(u, s)
      ]_vars

\* C11: the round counter is atomic under concurrent requests: once two
\* concurrent invocations of get_chunk have both returned the chunk, the
\* counter has grown by exactly 2 from its initial 1.
C11_RoundAtomic ==
    (\A t \in Threads : pc[t] = "idle" /\ calls[t] = 1 /\ response[t] = 200) =>
        round_num = 3

\* ------------------------------------------- erasure coding of a chunk

\* Longest chunk, in bytes, handed to the encoder.
MaxLen == 4
\* The byte values a chunk is made of.
ByteValues == {0, 1}
\* The values of k erasure_code_chunks is called with in SpecCodec.
KValues == {1, 2, 3, 4}

\* erasure_code_chunks(k=4, m=2)
Encoder_k == 4
Encoder_m == 2

\* zfec computes in GF(2^8); the model's code is the same systematic
\* Reed-Solomon construction over the prime field of this size, which has
\* room for the k + m <= 6 block numbers.
FieldSize == 7

\* The chunks of at most MaxLen bytes.
Payloads == UNION {[1 .. len -> ByteValues] : len \in 0 .. MaxLen}

FMod(a) == a % FieldSize
FInv(a) == CHOOSE b \in 1 .. FieldSize - 1 : FMod(a * b) = 1

RECURSIVE LagrangeBasis(_, _, _, _)
\* Product over j # i of (x - xs[j]) / (xs[i] - xs[j]), from index j on.
LagrangeBasis(xs, i, x, j) ==
    IF j > Len(xs) THEN 1
    ELSE IF j = i THEN LagrangeBasis(xs, i, x, j + 1)
    ELSE FMod(FMod(x - xs[j]) * FInv(FMod(xs[i] - xs[j]))
              * LagrangeBasis(xs, i, x, j + 1))

RECURSIVE LagrangeSum(_, _, _, _)
\* The polynomial through the points (xs[i], ys[i]), evaluated at x.
LagrangeSum(xs, ys, x, i) ==
    IF i > Len(xs) THEN 0
    ELSE FMod(ys[i] * LagrangeBasis(xs, i, x, 1) + LagrangeSum(xs, ys, x, i + 1))

\* encoder.encode(segments) of Encoder(k, total): the k primary blocks are the
\* segments, each secondary block continues, byte position by byte position,
\* the polynomial through the primary blocks.
zfec_encode(segments, kk, total) ==
    LET xs == [i \in 1 .. kk |-> i - 1]
        size == Len(segments[1])
    IN  [b \in 1 .. total |->
            IF b <= kk THEN segments[b]
            ELSE [pos \in 1 .. size |->
                    LagrangeSum(xs, [i \in 1 .. kk |-> segments[i][pos]], b - 1, 1)]]

\* decoder.decode refuses blocks of different lengths.
zfec_decode_raises(blks) ==
    \E i, j \in 1 .. Len(blks) : Len(blks[i]) # Len(blks[j])

\* decoder.decode(data_blocks, indices) of Decoder(k, total): the k primary
\* blocks, in order, whatever the order the blocks are given in.
zfec_decode(blks, idx, kk) ==
    LET size == Len(blks[1])
    IN  [b \in 1 .. kk |->
            [pos \in 1 .. size |->
                LagrangeSum(idx, [j \in 1 .. kk |-> blks[j][pos]], b - 1, 1)]]

RECURSIVE Join(_)
\* b"".join(...)
Join(parts) == IF parts = <<>> THEN <<>> ELSE Head(parts) \o Join(Tail(parts))

\* The padding that adds up to the remainder instead of to a multiple of k.
PaddingOfRemainder(len, kk) == len % kk

\* padding = (-len(data)) % k
Padding(len, kk) == (0 - len) % kk

\* padded_data = data + b'\x00' * padding
padded_data(d, kk) == d \o [i \in 1 .. Padding(Len(d), kk) |-> 0]

\* segments = [padded_data[i*segment_size : (i+1)*segment_size] for i in range(k)]
segments(padded, kk) ==
    LET segment_size == Len(padded) \div kk
    IN  [i \in 1 .. kk |-> SubSeq(padded, (i - 1) * segment_size + 1, i * segment_size)]

\* What erasure_code_chunks(k, m) writes for a chunk holding the bytes d, or
\* the ValueError of its divisibility check.
Encoded(d, kk, mm) ==
    LET padded == padded_data(d, kk)
    IN  IF Len(padded) % kk # 0
        THEN [NoCoded EXCEPT !.raised = TRUE]
        ELSE [raised |-> FALSE,
              blocks |-> zfec_encode(segments(padded, kk), kk, kk + mm),
              metadata |-> [original_size |-> Len(d),
                            padding_size |-> Padding(Len(d), kk),
                            k |-> kk, m |-> mm]]

\* Truncation without the bound: the decoded bytes as they are.
TruncatedNot(bytes, original_size) == bytes

\* decoded[:metadata['original_size']]
Truncated(bytes, original_size) == SubSeq(bytes, 1, Min(original_size, Len(bytes)))

\* Lines 29-38 of decode_chunk for a decoder of kk primary blocks: decode the
\* first blocks given, join, truncate to the recorded original size.
Reconstructed(blks, idx, kk, metadata) ==
    Truncated(Join(zfec_decode(blks, idx, kk)), metadata.original_size)

\* The ways to collect kk blocks with distinct numbers out of 0 .. total - 1,
\* in any order of arrival.
Arrangements(kk, total) ==
    {s \in [1 .. kk -> 0 .. total - 1] : \A i, j \in 1 .. kk : i # j => s[i] # s[j]}

\* The selectors are not part of the run.
SelectorAbsent ==
    /\ Constructed("None", <<>>, 0, 0, 0)
    /\ round_num = 1
    /\ ret = NoCall
    /\ ThreadsIdle

\* A chunk file and the parameters the encoder is called with.
InitCodec ==
    /\ SelectorAbsent
    /\ data \in Payloads
    /\ enc_k \in KValues
    /\ enc_m = Encoder_m
    /\ coded = NoCoded
    /\ pod_status = <<>>
    /\ dpc = "off"
    /\ pod_num = 0
    /\ blocks = <<>>
    /\ indices = <<>>
    /\ decoded = None
    /\ reply = 0

selector == <<config, estimator, recorded, round_num, ret, locals>>

\* erasure_code_chunks(k, m), for the one chunk.
erasure_code_chunks ==
    /\ coded = NoCoded
    /\ coded' = Encoded(data, enc_k, enc_m)
    /\ UNCHANGED <<selector, data, enc_k, enc_m, pod_status, dpc, pod_num, blocks,
                   indices, decoded, reply>>

\* k of the coded blocks are collected, in some order, and decoded.
Reconstruct ==
    /\ coded # NoCoded
    /\ ~coded.raised
    /\ indices = <<>>
    /\ \E order \in Arrangements(enc_k, enc_k + enc_m) :
          /\ indices' = order
          /\ blocks' = [i \in 1 .. Len(order) |-> <<order[i], coded.blocks[order[i] + 1]>>]
          /\ decoded' = [is_none |-> FALSE,
                         bytes |-> Reconstructed(
                                      [i \in 1 .. Len(order) |-> blocks'[i][2]],
                                      order, enc_k, coded.metadata)]
    /\ UNCHANGED <<selector, data, enc_k, enc_m, coded, pod_status, dpc, pod_num, reply>>

NextCodec ==
    \/ erasure_code_chunks
    \/ Reconstruct

SpecCodec == InitCodec /\ [][NextCodec]_vars

\* ------------------------------------------ the decode proxy's get_chunk

\* K = 4  # Data blocks needed
K == 4
\* M = 2  # Parity blocks
M == 2
\* for pod_num in range(6)
Pods == 6

\* How a Tomcat pod answers: with the file asked for, not at all (the request
\* times out or the connection is refused), or with an HTTP error page.
PodStatuses == {"up", "down", "error"}

\* The body of an HTTP error response: no block has this length.
ErrorBody == [i \in 1 .. MaxLen + 1 |-> 1]

\* The chunk has been encoded with the encoder's defaults and block i stored
\* on pod i; a request finds each pod in one of its statuses.
InitDecodeProxy ==
    /\ SelectorAbsent
    /\ data \in {d \in Payloads : Len(d) >= 1}
    /\ enc_k = Encoder_k
    /\ enc_m = Encoder_m
    /\ coded = Encoded(data, Encoder_k, Encoder_m)
    /\ pod_status \in [0 .. Pods - 1 -> PodStatuses]
    /\ dpc = "idle"
    /\ pod_num = 0
    /\ blocks = <<>>
    /\ indices = <<>>
    /\ decoded = None
    /\ reply = 0

\* GET /video/<chunk_id>.mp4: get_chunk calls decode_chunk.
VideoRequest ==
    /\ dpc = "idle"
    /\ dpc' = "fetch"
    /\ pod_num' = 0
    /\ blocks' = <<>>
    /\ UNCHANGED <<selector, data, enc_k, enc_m, coded, pod_status, indices, decoded, reply>>

\* One turn of the loop: requests.get returns the block file.
FetchBlock ==
    /\ dpc = "fetch"
    /\ pod_num < Pods
    /\ pod_status[pod_num] = "up"
    /\ blocks' = Append(blocks, <<pod_num, coded.blocks[pod_num + 1]>>)
    /\ pod_num' = pod_num + 1
    /\ UNCHANGED <<selector, data, enc_k, enc_m, coded, pod_status, dpc, indices,
                   decoded, reply>>

\* One turn of the loop: requests.get returns an HTTP error response; it does
\* not raise, and resp.content is appended like a block.
FetchErrorPage ==
    /\ dpc = "fetch"
    /\ pod_num < Pods
    /\ pod_status[pod_num] = "error"
    /\ blocks' = Append(blocks, <<pod_num, ErrorBody>>)
    /\ pod_num' = pod_num + 1
    /\ UNCHANGED <<selector, data, enc_k, enc_m, coded, pod_status, dpc, indices,
                   decoded, reply>>

\* One turn of the loop: requests.get raises; the except clause prints and
\* the loop goes on.
FetchRaises ==
    /\ dpc = "fetch"
    /\ pod_num < Pods
    /\ pod_status[pod_num] = "down"
    /\ pod_num' = pod_num + 1
    /\ UNCHANGED <<selector, data, enc_k, enc_m, coded, pod_status, dpc, blocks,
                   indices, decoded, reply>>

\* if len(blocks) < K: return None; get_chunk answers 404.
TooFewBlocks ==
    /\ dpc = "fetch"
    /\ pod_num = Pods
    /\ Len(blocks) < K
    /\ decoded' = None
    /\ reply' = 404
    /\ dpc' = "done"
    /\ UNCHANGED <<selector, data, enc_k, enc_m, coded, pod_status, pod_num, blocks,
                   indices>>

\* The first K blocks are decoded, the metadata fetched from pod 0 and the
\* result truncated; whatever raises in this makes decode_chunk return None.
\* get_chunk answers 200 with a non-empty result and 404 otherwise.
DecodeChunk ==
    /\ dpc = "fetch"
    /\ pod_num = Pods
    /\ Len(blocks) >= K
    /\ indices' = [i \in 1 .. K |-> blocks[i][1]]
    /\ LET data_blocks == [i \in 1 .. K |-> blocks[i][2]]
       IN  decoded' =
             IF zfec_decode_raises(data_blocks) \/ pod_status[0] # "up"
             THEN None
             ELSE [is_none |-> FALSE,
                   bytes |-> Reconstructed(data_blocks, indices', K, coded.metadata)]
    /\ reply' = IF ~decoded'.is_none /\ decoded'.bytes # <<>> THEN 200 ELSE 404
    /\ dpc' = "done"
    /\ UNCHANGED <<selector, data, enc_k, enc_m, coded, pod_status, pod_num, blocks>>

NextDecodeProxy ==
    \/ VideoRequest
    \/ FetchBlock
    \/ FetchErrorPage
    \/ FetchRaises
    \/ TooFewBlocks
    \/ DecodeChunk

SpecDecodeProxy == InitDecodeProxy /\ [][NextDecodeProxy]_vars

\* ------------------------------------------ the decode proxy's claims

\* The pods that hold and serve their block.
PodsUp == {p \in 0 .. Pods - 1 : pod_status[p] = "up"}

\* The blocks in hand that are fragments of the chunk.
FragmentsInHand == {i \in 1 .. Len(blocks) : blocks[i][1] \in PodsUp}

\* C12: the retrieval of a chunk issues no further fetch once k valid
\* fragments are in hand.
C12_StopAtK ==
    [][pod_num' = pod_num + 1 => Cardinality(FragmentsInHand) < K]_vars

\* C13: if fewer than k fragments were obtained when all fetches have
\* finished, the request answers 'chunk unavailable' and the decoder has not
\* been invoked.
C13_ChunkUnavailable ==
    (dpc = "done" /\ Cardinality(PodsUp) < K) => (reply = 404 /\ indices = <<>>)

\* C14: with k = 4 and m = 2, for every set of at most 2 servers out of the 6
\* whose fetch fails, server 0 included, the request succeeds and returns the
\* chunk.
C14_AnyTwoFailures ==
    (/\ dpc = "done"
     /\ \A p \in 0 .. Pods - 1 : pod_status[p] \in {"up", "down"}
     /\ Pods - Cardinality(PodsUp) <= M) =>
        (reply = 200 /\ ~decoded.is_none /\ decoded.bytes = data)

\* ------------------------------------------------ the codec's claims

\* C15: the encoder's padding is (-originalSize) mod k, lies in [0, k), makes
\* originalSize + padding divisible by k, and the metadata recorded satisfies
\* original_size + padding_size = k * segment length; truncating the decoded
\* padded payload to original_size removes exactly the padding.
C15_Padding ==
    (coded # NoCoded) =>
        LET md == coded.metadata
        IN  /\ ~coded.raised
            /\ md.original_size = Len(data)
            /\ md.padding_size \in 0 .. enc_k - 1
            /\ (md.original_size + md.padding_size) % enc_k = 0
            /\ md.padding_size = (enc_k - (Len(data) % enc_k)) % enc_k
            /\ \A b \in 1 .. enc_k + enc_m :
                  md.original_size + md.padding_size = enc_k * Len(coded.blocks[b])
            /\ LET padded == Join(SubSeq(coded.blocks, 1, enc_k))
               IN  /\ Len(padded) = md.original_size + md.padding_size
                   /\ Truncated(padded, md.original_size) = data
                   /\ \A i \in md.original_size + 1 .. Len(padded) : padded[i] = 0
            /\ (indices # <<>>) =>
                  Len(decoded.bytes) = enc_k * Len(blocks[1][2]) - md.padding_size

\* A chunk whose length is not a multiple of k has been encoded with padding,
\* decoded and truncated.
C15_Witness ==
    /\ coded # NoCoded
    /\ coded.metadata.padding_size >= 2
    /\ Len(data) > enc_k
    /\ indices # <<>>

\* C16: for every payload and every choice of k blocks with distinct numbers
\* out of the k + m the encoder produced, in any order of arrival, decoding
\* and truncating to the original size gives back the payload.
C16_RoundTrip ==
    (indices # <<>>) => (~decoded.is_none /\ decoded.bytes = data)

\* A chunk with a non-zero byte has been rebuilt from blocks that arrived out
\* of order, two of them secondary and a primary one missing.
C16_Witness ==
    /\ indices # <<>>
    /\ \E i \in 1 .. Len(data) : data[i] # 0
    /\ Cardinality({i \in 1 .. Len(indices) : indices[i] >= enc_k}) = 2
    /\ \E i, j \in 1 .. Len(indices) : i < j /\ indices[i] > indices[j]
    /\ decoded.bytes = data

\* C26: every block that decode_chunk counts toward k and passes to the
\* decoder is a validly fetched fragment: a server that answers with an error
\* response (rather than raising or timing out) contributes no block, and each
\* server is fetched at most once per chunk request.
C26_OnlyFetchedFragments ==
    /\ \A i \in 1 .. Len(blocks) :
          /\ pod_status[blocks[i][1]] # "error"
          /\ blocks[i][2] = coded.blocks[blocks[i][1] + 1]
    /\ \A i, j \in 1 .. Len(blocks) : i # j => blocks[i][1] # blocks[j][1]
    /\ \A i \in 1 .. Len(indices) : pod_status[indices[i]] = "up"

=============================================================================
